---------------------------- MODULE Spec2Model ----------------------------
(***************************************************************************)
(* Payload-generation pipeline of the /generate-payload page               *)
(* (src/src/GeneratePayloadPage.tsx), the start-up effect of the App       *)
(* component (src/src/App.tsx) and the injected backend wallet             *)
(* (src/unnamed/part_000).                                                 *)
(*                                                                         *)
(* JavaScript values are records [t, v]: t is the type tag and v the       *)
(* string content, so that null, undefined, '' and 'null' stay distinct.   *)
(***************************************************************************)
EXTENDS Integers, Sequences, FiniteSets

(***************************************************************************)
(* Bounds of the model                                                     *)
(***************************************************************************)
\* longest option list the aggregator returns
MaxOptions == 2
\* longest quote list the aggregator returns
MaxQuotes == 2
\* most request() calls made on one injected wallet interface
MaxRequests == 2
\* most runs of main() on one mounted page
MaxRuns == 2

(***************************************************************************)
(* Program constants                                                       *)
(***************************************************************************)
\* while (attempts < 5)
MaxAttempts == 5
\* if (depositOpts.length >= 2) break
Minimum == 2
\* new BigNumber('0.000001'), in millionths
PlaceholderMicro == 1
\* millionths per unit: amounts are kept as integers of 10^-6
Micro == 1000000

(***************************************************************************)
(* JavaScript values                                                       *)
(***************************************************************************)
JsNull == [t |-> "null", v |-> ""]
JsUndefined == [t |-> "undefined", v |-> ""]
JsStr(s) == [t |-> "string", v |-> s]
\* an Error object with the given message
ErrObj(m) == [t |-> "Error", v |-> m]
\* no value thrown
NotRaised == [t |-> "none", v |-> ""]

IsNullish(x) == x.t \in {"null", "undefined"}
\* !x for the values a URL parameter can take
Falsy(x) == IsNullish(x) \/ (x.t = "string" /\ x.v = "")

\* what an awaited collaborator may reject with
ThrownValues ==
  {ErrObj("aggregator unavailable"), ErrObj(""), JsStr("timeout"), JsUndefined}

(***************************************************************************)
(* The request: location.search                                            *)
(***************************************************************************)
VaultIdParams == {JsNull, JsStr(""), JsStr("vault-a")}
TypeParams == {JsNull, JsStr(""), JsStr("deposit"), JsStr("withdraw"), JsStr("swap")}
AmountParams ==
  {JsNull, JsStr(""), JsStr("all"), JsStr("-1"), JsStr("0"), JsStr("2"), JsStr("abc")}
WalletParams == {JsNull, JsStr("0xUser")}

Searches ==
  [vaultId : VaultIdParams, type : TypeParams, amount : AmountParams,
   wallet : WalletParams]

\* searchParams.get(...) of the four parameters; amount falls back to 'all'
ParseParams(search) ==
  [vaultId |-> search.vaultId,
   type |-> search.type,
   rawAmount |-> IF Falsy(search.amount) THEN JsStr("all") ELSE search.amount,
   userWallet |-> search.wallet]

MissingMessage == "Missing vaultId or type=? (deposit/withdraw)"
BadTypeMessage == "Type must be deposit or withdraw"

ValidationErrorNoTypeCheck(req) ==
  IF Falsy(req.vaultId) \/ Falsy(req.type) THEN ErrObj(MissingMessage)
  ELSE NotRaised

\* the two validation throws; NotRaised when the request passes
ValidationError(req) ==
  IF Falsy(req.vaultId) \/ Falsy(req.type) THEN ErrObj(MissingMessage)
  ELSE IF req.type # JsStr("deposit") /\ req.type # JsStr("withdraw")
       THEN ErrObj(BadTypeMessage)
       ELSE NotRaised

(***************************************************************************)
(* BigNumber                                                               *)
(***************************************************************************)
NaN == [nan |-> TRUE, micro |-> 0]
Num(m) == [nan |-> FALSE, micro |-> m]

\* new BigNumber(s) on the strings of the model; any other text is NaN
BigNumberOf(s) ==
  CASE s = "-1" -> Num(-1 * Micro)
    [] s = "0" -> Num(0)
    [] s = "1" -> Num(Micro)
    [] s = "2" -> Num(2 * Micro)
    [] s = "0.000001" -> Num(PlaceholderMicro)
    [] OTHER -> NaN

\* b.lte(n): false when b is NaN
Lte(b, n) == ~b.nan /\ b.micro <= n

(***************************************************************************)
(* Options, quotes, steps and dispatch results of the collaborators        *)
(***************************************************************************)
Token(id) == [id |-> id]

\* Options carry at least one input token; wanted outputs may be empty.
OptionPool ==
  {[id |-> "vault", inputs |-> <<Token("ETH")>>, wantedOutputs |-> <<>>],
   [id |-> "zap-usdc", inputs |-> <<Token("USDC")>>,
    wantedOutputs |-> <<Token("ETH"), Token("USDC")>>],
   [id |-> "zap-lp", inputs |-> <<Token("ETH"), Token("USDC")>>,
    wantedOutputs |-> <<Token("USDC")>>]}

NoOption == [id |-> "none", inputs |-> <<>>, wantedOutputs |-> <<>>]

OptionLists == UNION {[1..n -> OptionPool] : n \in 0..MaxOptions}

\* the quotes the aggregator prices for one option, in its own order
QuoteLists(option) ==
  {[i \in 1..n |-> [option |-> option.id, rank |-> i]] : n \in 0..MaxQuotes}

NoQuote == [option |-> "none", rank |-> 0]

NoResult == [t |-> "none", to |-> JsUndefined, data |-> JsUndefined,
             value |-> JsUndefined]

\* what store.dispatch(step.action) may resolve to
DispatchResults ==
  {[t |-> "undefined", to |-> JsUndefined, data |-> JsUndefined,
    value |-> JsUndefined],
   [t |-> "object", to |-> JsUndefined, data |-> JsUndefined,
    value |-> JsUndefined],
   [t |-> "object", to |-> JsStr("0xVault"), data |-> JsStr("0xd0e30db0"),
    value |-> JsStr("0")]}

\* result?.field
OptionalField(result, field) ==
  IF result.t = "object" THEN result[field] ELSE JsUndefined

NoPayload == [t |-> "null", from |-> JsNull, to |-> JsUndefined,
              data |-> JsUndefined, value |-> JsUndefined]

PayloadOfSwapped(userWallet, result) ==
  [t |-> "object", from |-> userWallet,
   to |-> OptionalField(result, "data"),
   data |-> OptionalField(result, "to"),
   value |-> OptionalField(result, "value")]

\* { from: userWallet, to: result?.to, data: result?.data, value: result?.value }
PayloadOf(userWallet, result) ==
  [t |-> "object", from |-> userWallet,
   to |-> OptionalField(result, "to"),
   data |-> OptionalField(result, "data"),
   value |-> OptionalField(result, "value")]


(***************************************************************************)
(* Option selection and amount specs                                       *)
(***************************************************************************)
MinOf(S) == CHOOSE i \in S : \A j \in S : i <= j

\* options[0]: undefined (NoOption) on an empty array
FirstOption(options) == IF Len(options) >= 1 THEN options[1] ELSE NoOption

\* options.find(o => o.inputs[0].id === 'USDC') ?? options[0]
SelectDepositOption(options) ==
  LET hits == {i \in 1..Len(options) : options[i].inputs[1].id = "USDC"}
  IN IF hits # {} THEN options[MinOf(hits)] ELSE FirstOption(options)

SelectWithdrawOptionAnyOutput(options) ==
  LET hits == {i \in 1..Len(options) :
                 \E k \in 1..Len(options[i].wantedOutputs) :
                   options[i].wantedOutputs[k].id = "USDC"}
  IN IF hits # {} THEN options[MinOf(hits)] ELSE FirstOption(options)

\* options.find(o => o.wantedOutputs[0]?.id === 'USDC') ?? options[0]
SelectWithdrawOption(options) ==
  LET hits == {i \in 1..Len(options) :
                 /\ Len(options[i].wantedOutputs) >= 1
                 /\ options[i].wantedOutputs[1].id = "USDC"}
  IN IF hits # {} THEN options[MinOf(hits)] ELSE FirstOption(options)

DepositAmountArgRaw(rawAmount) == rawAmount.v

\* rawAmount === 'all' ? '1' : rawAmount
DepositAmountArg(rawAmount) ==
  IF rawAmount = JsStr("all") THEN "1" ELSE rawAmount.v

\* generateWithdrawAllPayload passes '-1'; otherwise rawAmount as given
WithdrawAmountArg(rawAmount) ==
  IF rawAmount = JsStr("all") THEN "-1" ELSE rawAmount.v

\* [{ token: inputToken, amount: new BigNumber(inputAmount), max: false }]
DepositInputAmounts(option, inputAmount) ==
  <<[token |-> option.inputs[1], amount |-> BigNumberOf(inputAmount),
     max |-> FALSE]>>

IsFullLt(withdrawAmount) ==
  ~BigNumberOf(withdrawAmount).nan /\ BigNumberOf(withdrawAmount).micro < 0

\* new BigNumber(withdrawAmount).lte(0)
IsFull(withdrawAmount) == Lte(BigNumberOf(withdrawAmount), 0)

WithdrawInputAmountsNoPlaceholder(option, withdrawAmount) ==
  <<[token |-> option.inputs[1], amount |-> BigNumberOf(withdrawAmount),
     max |-> IsFull(withdrawAmount)]>>

\* [{ token, amount: isFull ? 0.000001 : withdrawAmount, max: isFull }]
WithdrawInputAmounts(option, withdrawAmount) ==
  <<[token |-> option.inputs[1],
     amount |-> IF IsFull(withdrawAmount) THEN BigNumberOf("0.000001")
                ELSE BigNumberOf(withdrawAmount),
     max |-> IsFull(withdrawAmount)]>>

\* err.message || String(err), for a value that is not null or undefined
ErrMessage(e) ==
  IF e.t = "Error" THEN (IF e.v # "" THEN e.v ELSE "Error") ELSE e.v

(***************************************************************************)
(* State                                                                   *)
(***************************************************************************)
VARIABLES
  search,         \* location.search of the mounted page
  effectPending,  \* the effect on [location.search] is scheduled
  ready,          \* useState(false)
  error,          \* useState<string | null>(null)
  jsonResult,     \* useState<any>(null)
  runs,           \* the invocations of main(), in start order
  appPc,          \* App.initializeAndGeneratePayload: where it is
  attempt,        \* its loop counter
  optionsCount,   \* its optionsCount
  appProbes,      \* the counts its probes returned, in order
  appOptions,     \* App.generateDepositPayload: the options it fetched
  appOption,      \* the option it selected
  provPc,         \* the injected wallet: created, interface under construction, ready
  provMode,       \* which build made it: with a signer or from a bare address
  chainId,        \* the chainId bound by getInterface (0 before)
  netCalls,       \* how many times getNetwork was called
  requests,       \* the request() calls made on the interface, in call order
  nodeTxs         \* how many transactions the node has accepted

pageVars == <<search, effectPending, ready, error, jsonResult, runs>>
appVars == <<appPc, attempt, optionsCount, appProbes, appOptions, appOption>>
provVars == <<provPc, provMode, chainId, netCalls, requests, nodeTxs>>
vars == <<search, effectPending, ready, error, jsonResult, runs,
          appPc, attempt, optionsCount, appProbes, appOptions, appOption,
          provPc, provMode, chainId, netCalls, requests, nodeTxs>>

\* the JSON the page renders
finalOutput == [ready |-> ready, error |-> error, aggregatorPayload |-> jsonResult]

Init ==
  /\ search \in Searches
  /\ effectPending = TRUE
  /\ ready = FALSE
  /\ error = JsNull
  /\ jsonResult = NoPayload
  /\ runs = <<>>
  /\ appPc = "mounted"
  /\ attempt = 0
  /\ optionsCount = 0
  /\ appProbes = <<>>
  /\ appOptions = <<>>
  /\ appOption = NoOption
  /\ provPc = "none"
  /\ provMode = "none"
  /\ chainId = 0
  /\ netCalls = 0
  /\ requests = <<>>
  /\ nodeTxs = 0

RunIds == 1..Len(runs)

\* runs with run r set to rn (r may be the next new run)
PutRun(r, rn) ==
  [i \in 1..(IF r > Len(runs) THEN r ELSE Len(runs)) |->
     IF i = r THEN rn ELSE runs[i]]

NewRun(s) ==
  [search |-> s, req |-> ParseParams(s), pc |-> "parse", attempts |-> 0, probes |-> <<>>,
   options |-> <<>>, option |-> NoOption, inputAmounts |-> <<>>,
   quotes |-> <<>>, quote |-> NoQuote, result |-> NoResult, log |-> <<>>,
   methods |-> <<>>, returned |-> {}, settled |-> 0, raised |-> NotRaised]

\* the function a call of the run invokes: the probe lists the deposit
\* options whatever the type; step 5 calls the api of the request's type
MethodOf(rn, name) ==
  LET deposit == rn.req.type = JsStr("deposit")
  IN CASE name = "probe" -> "fetchDepositOptionsFor"
       [] name = "fetchOptions" ->
            IF deposit THEN "fetchDepositOptionsFor" ELSE "fetchWithdrawOptionsFor"
       [] name = "fetchQuotes" ->
            IF deposit THEN "fetchDepositQuotesFor" ELSE "fetchWithdrawQuotesFor"
       [] name = "fetchStep" ->
            IF deposit THEN "fetchDepositStep" ELSE "fetchWithdrawStep"
       [] name = "sleep" -> "setTimeout"
       [] name = "dispatch" -> "store.dispatch"
       [] OTHER -> name

\* issue an external call: the run now awaits it (getTransactApi and
\* getWalletConnectionApi are awaited as part of the call that follows them)
Call(rn, name) ==
  [rn EXCEPT !.pc = name, !.log = Append(@, name),
             !.methods = Append(@, MethodOf(rn, name))]
\* the awaited call of rn resolved
Returned(rn) == [rn EXCEPT !.returned = @ \cup {rn.pc}, !.settled = @ + 1]
\* the awaited call of rn rejected
Rejected(rn) == [rn EXCEPT !.settled = @ + 1]

IsDeposit(rn) == rn.req.type = JsStr("deposit")

CaughtRetries(r, rn, e) ==
  IF rn.pc \in {"fetchOptions", "fetchQuotes", "fetchStep", "dispatch"}
  THEN /\ runs' = PutRun(r, [rn EXCEPT !.log = Append(@, rn.pc),
                                       !.methods = Append(@, "retry")])
       /\ UNCHANGED <<ready, error, jsonResult>>
  ELSE /\ runs' = PutRun(r, [rn EXCEPT !.pc = "done", !.raised = e])
       /\ error' = JsStr(ErrMessage(e))
       /\ ready' = TRUE
       /\ UNCHANGED jsonResult

\* catch (err) { setError(err.message || String(err)); setReady(true); }
\* Reading .message of null or undefined throws inside the handler, and
\* the rejection of main() is dropped by `void main()`.
Caught(r, rn, e) ==
  IF IsNullish(e)
  THEN /\ runs' = PutRun(r, [rn EXCEPT !.pc = "escaped", !.raised = e])
       /\ UNCHANGED <<ready, error, jsonResult>>
  ELSE /\ runs' = PutRun(r, [rn EXCEPT !.pc = "done", !.raised = e])
       /\ error' = JsStr(ErrMessage(e))
       /\ ready' = TRUE
       /\ UNCHANGED jsonResult

PollSatisfiedStrict(count) == count > Minimum

\* depositOpts.length >= 2
PollSatisfied(count) == count >= Minimum

CallQuotesFirst(rn) == Call(rn, "fetchQuotes")

\* step 5: the call generate*Payload makes first
CallOptions(rn) == Call(rn, "fetchOptions")

LoopContinuesInclusive(n) == n <= MaxAttempts

\* attempts < 5
LoopContinues(n) == n < MaxAttempts

PollNextGivesUp(rn) ==
  IF LoopContinues(rn.attempts) THEN Call(rn, "probe")
  ELSE [rn EXCEPT !.pc = "done"]

\* the loop test of step 4, and the probe it issues
PollNext(rn) ==
  IF LoopContinues(rn.attempts) THEN Call(rn, "probe") ELSE CallOptions(rn)

(***************************************************************************)
(* GeneratePayloadPage: the effect and main()                              *)
(***************************************************************************)
\* The effect runs main(): parse, validate, then await initAppData(store).
StartRun ==
  /\ effectPending
  /\ effectPending' = FALSE
  /\ LET r == Len(runs) + 1
         rn == NewRun(search)
         invalid == ValidationError(rn.req)
     IN IF invalid # NotRaised
        THEN Caught(r, rn, invalid)
        ELSE /\ runs' = PutRun(r, Call(rn, "initAppData"))
             /\ UNCHANGED <<ready, error, jsonResult>>
  /\ UNCHANGED <<search, appVars, provVars>>

InitAppDataReturnsNoReInject(r) ==
  /\ runs[r].pc = "initAppData"
  /\ runs' = PutRun(r, PollNext(Returned(runs[r])))
  /\ UNCHANGED <<search, effectPending, ready, error, jsonResult, appVars, provVars>>

\* initAppData resolved: re-inject the wallet if one was given, else poll
InitAppDataReturns(r) ==
  /\ runs[r].pc = "initAppData"
  /\ LET rn == Returned(runs[r])
     IN runs' = PutRun(r, IF ~Falsy(rn.req.userWallet)
                          THEN Call(rn, "reInjectBackendWallet")
                          ELSE PollNext(rn))
  /\ UNCHANGED <<search, effectPending, ready, error, jsonResult, appVars, provVars>>

\* getWalletConnectionApi and reInjectBackendWallet resolved
ReInjectReturns(r) ==
  /\ runs[r].pc = "reInjectBackendWallet"
  /\ runs' = PutRun(r, PollNext(Returned(runs[r])))
  /\ UNCHANGED <<search, effectPending, ready, error, jsonResult, appVars, provVars>>

\* the probe's fetchDepositOptionsFor resolved with depositOpts
ProbeReturns(r) ==
  /\ runs[r].pc = "probe"
  /\ \E depositOpts \in OptionLists :
       LET rn == [Returned(runs[r]) EXCEPT
                    !.probes = Append(@, Len(depositOpts))]
       IN runs' = PutRun(r, IF PollSatisfied(Len(depositOpts))
                            THEN CallOptions(rn)
                            ELSE Call([rn EXCEPT !.attempts = @ + 1], "sleep"))
  /\ UNCHANGED <<search, effectPending, ready, error, jsonResult, appVars, provVars>>

\* the one-second timer fired: back to the loop test
SleepReturns(r) ==
  /\ runs[r].pc = "sleep"
  /\ runs' = PutRun(r, PollNext(Returned(runs[r])))
  /\ UNCHANGED <<search, effectPending, ready, error, jsonResult, appVars, provVars>>

NoOptionsMessage(rn) ==
  IF IsDeposit(rn) THEN "No deposit options available"
  ELSE "No withdraw options available"

NoQuotesMessage(rn) ==
  IF IsDeposit(rn) THEN "No deposit quotes found" ELSE "No withdraw quotes found"

NoOptionsNever(options) == FALSE

\* !options.length
NoOptions(options) == Len(options) = 0

NoQuotesNever(quotes) == FALSE

\* !quotes.length
NoQuotes(quotes) == Len(quotes) = 0

NoOptionFoundMessage(rn) ==
  IF IsDeposit(rn) THEN "No deposit option found" ELSE "No withdraw option found"

\* the option generate*Payload selects from rn.options
SelectOption(rn) ==
  IF IsDeposit(rn) THEN SelectDepositOption(rn.options)
  ELSE SelectWithdrawOption(rn.options)

\* the amount specs generate*Payload passes to the quote fetch
InputAmounts(rn, option) ==
  IF IsDeposit(rn)
  THEN DepositInputAmounts(option, DepositAmountArg(rn.req.rawAmount))
  ELSE WithdrawInputAmounts(option, WithdrawAmountArg(rn.req.rawAmount))

\* fetch*OptionsFor resolved: empty throws, else select and fetch quotes
FetchOptionsReturns(r) ==
  /\ runs[r].pc = "fetchOptions"
  /\ \E options \in OptionLists :
       LET rn == [Returned(runs[r]) EXCEPT !.options = options]
           option == SelectOption(rn)
       IN IF NoOptions(options)
          THEN Caught(r, rn, ErrObj(NoOptionsMessage(rn)))
          ELSE IF option = NoOption
          THEN Caught(r, rn, ErrObj(NoOptionFoundMessage(rn)))
          ELSE /\ runs' = PutRun(r, Call([rn EXCEPT
                                            !.option = option,
                                            !.inputAmounts = InputAmounts(rn, option)],
                                         "fetchQuotes"))
               /\ UNCHANGED <<ready, error, jsonResult>>
  /\ UNCHANGED <<search, effectPending, appVars, provVars>>

\* quotes[0]: undefined (NoQuote) on an empty array
FirstQuote(quotes) == IF Len(quotes) >= 1 THEN quotes[1] ELSE NoQuote

\* fetch*QuotesFor resolved: empty throws, else take quotes[0] and fetch the step
FetchQuotesReturns(r) ==
  /\ runs[r].pc = "fetchQuotes"
  /\ \E quotes \in QuoteLists(runs[r].option) :
       LET rn == [Returned(runs[r]) EXCEPT !.quotes = quotes]
       IN IF NoQuotes(quotes)
          THEN Caught(r, rn, ErrObj(NoQuotesMessage(rn)))
          ELSE /\ runs' = PutRun(r, Call([rn EXCEPT !.quote = FirstQuote(quotes)],
                                         "fetchStep"))
               /\ UNCHANGED <<ready, error, jsonResult>>
  /\ UNCHANGED <<search, effectPending, appVars, provVars>>

\* fetch*Step resolved: dispatch step.action
FetchStepReturns(r) ==
  /\ runs[r].pc = "fetchStep"
  /\ runs' = PutRun(r, Call(Returned(runs[r]), "dispatch"))
  /\ UNCHANGED <<search, effectPending, ready, error, jsonResult, appVars, provVars>>

\* store.dispatch resolved: setJsonResult({...}); setReady(true)
DispatchReturns(r) ==
  /\ runs[r].pc = "dispatch"
  /\ \E result \in DispatchResults :
       /\ runs' = PutRun(r, [Returned(runs[r]) EXCEPT !.result = result, !.pc = "done"])
       /\ jsonResult' = PayloadOf(runs[r].req.userWallet, result)
  /\ ready' = TRUE
  /\ UNCHANGED <<search, effectPending, error, appVars, provVars>>

\* the calls that can reject (the timer cannot)
ExternalCalls ==
  {"initAppData", "reInjectBackendWallet", "probe", "fetchOptions", "fetchQuotes",
   "fetchStep", "dispatch"}

\* the awaited collaborator (or the api lookup awaited just before it)
\* rejected with e
CallThrows(r) ==
  /\ runs[r].pc \in ExternalCalls
  /\ \E e \in ThrownValues : Caught(r, Rejected(runs[r]), e)
  /\ UNCHANGED <<search, effectPending, appVars, provVars>>

Next ==
  \/ StartRun
  \/ \E r \in RunIds : InitAppDataReturns(r)
  \/ \E r \in RunIds : ReInjectReturns(r)
  \/ \E r \in RunIds : ProbeReturns(r)
  \/ \E r \in RunIds : SleepReturns(r)
  \/ \E r \in RunIds : FetchOptionsReturns(r)
  \/ \E r \in RunIds : FetchQuotesReturns(r)
  \/ \E r \in RunIds : FetchStepReturns(r)
  \/ \E r \in RunIds : DispatchReturns(r)
  \/ \E r \in RunIds : CallThrows(r)

\* One page load: the page is mounted with its search and the effect runs
\* main() once; location.search does not change while the page is mounted.
Spec == Init /\ [][Next]_vars

(***************************************************************************)
(* GeneratePayloadPage: location.search changes while the page is mounted  *)
(***************************************************************************)
\* The router moves the mounted page to another query string: the component
\* re-renders with its state as it is and the effect is scheduled again
\* (no cleanup is returned by the effect, so a run in flight goes on).
Navigate ==
  /\ ~effectPending
  /\ Len(runs) < MaxRuns
  /\ \E s \in Searches \ {search} : search' = s
  /\ effectPending' = TRUE
  /\ UNCHANGED <<ready, error, jsonResult, runs, appVars, provVars>>

\* the requests followed across navigations
NavSearches ==
  {[vaultId |-> JsStr("vault-a"), type |-> JsStr("deposit"), amount |-> JsNull,
    wallet |-> JsNull],
   [vaultId |-> JsStr("vault-a"), type |-> JsStr("deposit"), amount |-> JsNull,
    wallet |-> JsStr("0xUser")],
   [vaultId |-> JsStr("vault-a"), type |-> JsStr("swap"), amount |-> JsNull,
    wallet |-> JsNull]}

\* The collaborators as they answer once the aggregator is loaded: a probe
\* finds two options at the first or second try, the listing holds at most
\* one option and one quote, and a call that fails rejects with an Error.
NavEnvironment ==
  /\ search \in NavSearches
  /\ \A r \in RunIds :
       /\ runs[r].probes \in {<<>>, <<1>>, <<2>>, <<1, 2>>}
       /\ Len(runs[r].options) <= 1
       /\ Len(runs[r].quotes) <= 1
       /\ runs[r].raised.t \in {"none", "Error"}
       /\ runs[r].raised.v # ""  \/ runs[r].raised = NotRaised

NextNav ==
  \/ Navigate /\ NavEnvironment'
  \/ StartRun /\ NavEnvironment'
  \/ \E r \in RunIds : InitAppDataReturns(r) /\ NavEnvironment'
  \/ \E r \in RunIds : ReInjectReturns(r) /\ NavEnvironment'
  \/ \E r \in RunIds : ProbeReturns(r) /\ NavEnvironment'
  \/ \E r \in RunIds : SleepReturns(r) /\ NavEnvironment'
  \/ \E r \in RunIds : FetchOptionsReturns(r) /\ NavEnvironment'
  \/ \E r \in RunIds : FetchQuotesReturns(r) /\ NavEnvironment'
  \/ \E r \in RunIds : FetchStepReturns(r) /\ NavEnvironment'
  \/ \E r \in RunIds : DispatchReturns(r) /\ NavEnvironment'
  \/ \E r \in RunIds : CallThrows(r) /\ NavEnvironment'

InitNav == Init /\ NavEnvironment

\* a mounted page whose query string changes, with the loaded aggregator
SpecNav == InitNav /\ [][NextNav]_vars

(***************************************************************************)
(* App: initializeAndGeneratePayload                                       *)
(***************************************************************************)
\* the effect of App runs: await initAppData(store)
AppStart ==
  /\ appPc = "mounted"
  /\ appPc' = "initAppData"
  /\ UNCHANGED <<attempt, optionsCount, appProbes, appOptions, appOption, pageVars, provVars>>

\* initAppData resolved: optionsCount = 0, attempt = 0, first probe
AppInitReturns ==
  /\ appPc = "initAppData"
  /\ optionsCount' = 0
  /\ attempt' = 0
  /\ appPc' = IF LoopContinues(0) THEN "probe" ELSE "aborted"
  /\ UNCHANGED <<appProbes, appOptions, appOption, pageVars, provVars>>

\* the probe resolved with opts: break on enough options, else warn and sleep
AppProbeReturns ==
  /\ appPc = "probe"
  /\ \E opts \in OptionLists :
       /\ optionsCount' = Len(opts)
       /\ appProbes' = Append(appProbes, Len(opts))
       /\ appPc' = IF PollSatisfied(Len(opts)) THEN "generate" ELSE "sleep"
  /\ UNCHANGED <<attempt, appOptions, appOption, pageVars, provVars>>

\* the timer fired: attempt++, loop test, and the check after the loop
AppSleepReturns ==
  /\ appPc = "sleep"
  /\ attempt' = attempt + 1
  /\ appPc' = IF LoopContinues(attempt + 1) THEN "probe"
              ELSE IF optionsCount < Minimum THEN "aborted" ELSE "generate"
  /\ UNCHANGED <<optionsCount, appProbes, appOptions, appOption, pageVars, provVars>>

\* options.find(o => o.inputs[0].id === 'USDC')!: undefined (NoOption) when
\* no option matches; the non-null assertion is erased at run time
FindDepositOption(options) ==
  LET hits == {i \in 1..Len(options) : options[i].inputs[1].id = "USDC"}
  IN IF hits # {} THEN options[MinOf(hits)] ELSE NoOption

\* generateDepositPayload: fetchDepositOptionsFor resolved; select, then
\* option.inputs[0] (a TypeError on undefined, which nothing catches), then
\* fetch the quotes
AppFetchOptionsReturns ==
  /\ appPc = "generate"
  /\ \E options \in OptionLists :
       /\ appOptions' = options
       /\ appOption' = FindDepositOption(options)
       /\ appPc' = IF FindDepositOption(options) = NoOption THEN "escaped"
                   ELSE "fetchQuotes"
  /\ UNCHANGED <<attempt, optionsCount, appProbes, pageVars, provVars>>

\* fetchDepositQuotesFor resolved: quotes[0] goes to fetchDepositStep
AppFetchQuotesReturns ==
  /\ appPc = "fetchQuotes"
  /\ appPc' = "fetchStep"
  /\ UNCHANGED <<attempt, optionsCount, appProbes, appOptions, appOption, pageVars, provVars>>

\* fetchDepositStep resolved: dispatch step.action
AppFetchStepReturns ==
  /\ appPc = "fetchStep"
  /\ appPc' = "dispatch"
  /\ UNCHANGED <<attempt, optionsCount, appProbes, appOptions, appOption, pageVars, provVars>>

\* store.dispatch resolved: the payload is logged
AppDispatchReturns ==
  /\ appPc = "dispatch"
  /\ appPc' = "logged"
  /\ UNCHANGED <<attempt, optionsCount, appProbes, appOptions, appOption, pageVars, provVars>>

\* an awaited call rejected: nothing catches it
AppCallThrows ==
  /\ appPc \in {"initAppData", "probe", "generate", "fetchQuotes", "fetchStep",
                "dispatch"}
  /\ appPc' = "escaped"
  /\ UNCHANGED <<attempt, optionsCount, appProbes, appOptions, appOption, pageVars, provVars>>

NextApp ==
  \/ AppStart
  \/ AppInitReturns
  \/ AppProbeReturns
  \/ AppSleepReturns
  \/ AppFetchOptionsReturns
  \/ AppFetchQuotesReturns
  \/ AppFetchStepReturns
  \/ AppDispatchReturns
  \/ AppCallThrows

\* the App component's start-up effect alone
SpecApp == Init /\ [][NextApp]_vars

(***************************************************************************)
(* The injected backend wallet (src/unnamed/part_000)                      *)
(*                                                                         *)
(* The file holds two builds of createInjectedBackendWallet: one made from *)
(* a private key (a signer) and one made from a bare address. provMode     *)
(* says which one was created. One interface is followed from its          *)
(* construction on; each getInterface call has its own chainId.            *)
(***************************************************************************)
Modes == {"signer", "address"}

\* wallet.address of the private key, or walletAddress as given
AccountOf(mode) == IF mode = "signer" THEN "0xSigner" ELSE "0xUser"

\* the chain ids provider.getNetwork() may report
ChainIds == {1, 42161}

\* the methods a caller sends; net_version and eth_sendRawTransaction have
\* no case of their own and take the default branch
Methods ==
  {"eth_requestAccounts", "eth_accounts", "eth_chainId", "eth_sendTransaction",
   "eth_estimateGas", "eth_call", "eth_getBalance", "eth_getTransactionReceipt",
   "eth_gasPrice", "net_version", "eth_sendRawTransaction"}

\* params of a request: left out, or an array with one element
ParamValues == {"undefined", "one"}

Digit(d) == SubSeq("0123456789abcdef", d + 1, d + 1)

RECURSIVE ToHex(_)
\* n.toString(16)
ToHex(n) == IF n < 16 THEN Digit(n) ELSE ToHex(n \div 16) \o Digit(n % 16)

\* ethers.toBeHex(n): hex digits padded to an even number of them
ToBeHex(n) ==
  IF Len(ToHex(n)) % 2 = 1 THEN "0x0" \o ToHex(n) ELSE "0x" \o ToHex(n)

RECURSIVE ToDecimal(_)
\* n.toString() of a non-negative bigint
ToDecimal(n) == IF n < 10 THEN Digit(n) ELSE ToDecimal(n \div 10) \o Digit(n % 10)

SigningMessage == "No signing available in data-only mode"
\* params![0] on params that were left out
ParamsTypeError == ErrObj("Cannot read properties of undefined (reading '0')")
\* what a node call may reject with
NodeErrors == {ErrObj("could not detect network")}

SignsAlways(mode) == TRUE

\* eth_sendTransaction reaches wallet.sendTransaction only in the build
\* that holds a private key; the other build throws
Signs(mode) == mode = "signer"

NodeOpOfNoChainIdCase(method) ==
  CASE method \in {"eth_requestAccounts", "eth_accounts"} -> "none"
    [] method = "eth_sendTransaction" -> "sendTransaction"
    [] method = "eth_estimateGas" -> "estimateGas"
    [] method = "eth_call" -> "call"
    [] method = "eth_getBalance" -> "getBalance"
    [] method = "eth_getTransactionReceipt" -> "getTransactionReceipt"
    [] method = "eth_gasPrice" -> "getFeeData"
    [] OTHER -> "send"

\* the switch of request(): the node operation a method is served by, "none"
\* when it is answered from the closure
NodeOpOf(method) ==
  CASE method \in {"eth_requestAccounts", "eth_accounts", "eth_chainId"} -> "none"
    [] method = "eth_sendTransaction" -> "sendTransaction"
    [] method = "eth_estimateGas" -> "estimateGas"
    [] method = "eth_call" -> "call"
    [] method = "eth_getBalance" -> "getBalance"
    [] method = "eth_getTransactionReceipt" -> "getTransactionReceipt"
    [] method = "eth_gasPrice" -> "getFeeData"
    [] OTHER -> "send"

\* the branches that read params![0]
ReadsFirstParam(method) ==
  method \in {"eth_sendTransaction", "eth_estimateGas", "eth_call", "eth_getBalance",
              "eth_getTransactionReceipt"}

Reply(t, v, n) == [t |-> t, v |-> v, n |-> n]

\* what the node operation may resolve to
NodeReplies(op) ==
  CASE op = "sendTransaction" -> {Reply("tx", "0xhash", 0)}
    [] op = "estimateGas" -> {Reply("bigint", "", 21000)}
    [] op = "call" -> {Reply("string", "0x", 0)}
    [] op = "getBalance" -> {Reply("bigint", "", 0), Reply("bigint", "", 15)}
    [] op = "getTransactionReceipt" -> {Reply("null", "", 0), Reply("object", "receipt", 0)}
    [] op = "getFeeData" -> {Reply("feeData", "null", 0), Reply("feeData", "bigint", 7)}
    [] OTHER -> {Reply("string", "0x1", 0)}

\* what request() returns for the reply of its node operation: tx.hash,
\* .toString() of a bigint, gasPrice?.toString(), or the reply as it is
ResultOf(op, reply) ==
  CASE op = "sendTransaction" -> JsStr(reply.v)
    [] op \in {"estimateGas", "getBalance"} -> JsStr(ToDecimal(reply.n))
    [] op = "getFeeData" ->
         IF reply.v = "null" THEN JsUndefined ELSE JsStr(ToDecimal(reply.n))
    [] OTHER -> [t |-> reply.t, v |-> reply.v]

\* The node adds a transaction to its state when wallet.sendTransaction
\* succeeds, and when provider.send forwards a method that submits one.
Broadcasts(op, method) ==
  \/ op = "sendTransaction"
  \/ op = "send" /\ method = "eth_sendRawTransaction"

\* a request() call: its arguments, where it is, what it settled with, and
\* the node operations it issued
NewRequest(method, params, pc, result, nodeOps) ==
  [method |-> method, params |-> params, pc |-> pc, result |-> result,
   nodeOps |-> nodeOps]

\* createInjectedBackendWallet(privateKey | walletAddress, rpcUrl)
CreateInjectedBackendWallet ==
  /\ provPc = "none"
  /\ \E mode \in Modes : provMode' = mode
  /\ provPc' = "created"
  /\ UNCHANGED <<chainId, netCalls, requests, nodeTxs, pageVars, appVars>>

\* getInterface: new JsonRpcProvider(rpcUrl); await provider.getNetwork()
GetInterface ==
  /\ provPc = "created"
  /\ provPc' = "getNetwork"
  /\ netCalls' = netCalls + 1
  /\ UNCHANGED <<provMode, chainId, requests, nodeTxs, pageVars, appVars>>

\* getNetwork resolved: chainId is bound and the interface is returned
GetNetworkReturns ==
  /\ provPc = "getNetwork"
  /\ \E id \in ChainIds : chainId' = id
  /\ provPc' = "ready"
  /\ UNCHANGED <<provMode, netCalls, requests, nodeTxs, pageVars, appVars>>

\* getNetwork rejected: getInterface rejects, no interface exists
GetNetworkThrows ==
  /\ provPc = "getNetwork"
  /\ provPc' = "failed"
  /\ UNCHANGED <<provMode, chainId, netCalls, requests, nodeTxs, pageVars, appVars>>

\* injectedProvider.request({ method, params }) up to its first await
Request ==
  /\ provPc = "ready"
  /\ Len(requests) < MaxRequests
  /\ \E method \in Methods, params \in ParamValues :
       LET op == NodeOpOf(method)
       IN requests' = Append(requests,
            IF op = "none"
            THEN NewRequest(method, params, "resolved",
                            IF method = "eth_chainId" THEN JsStr(ToBeHex(chainId))
                            ELSE [t |-> "array", v |-> AccountOf(provMode)],
                            <<>>)
            ELSE IF method = "eth_sendTransaction" /\ ~Signs(provMode)
            THEN NewRequest(method, params, "rejected", ErrObj(SigningMessage), <<>>)
            ELSE IF ReadsFirstParam(method) /\ params = "undefined"
            THEN NewRequest(method, params, "rejected", ParamsTypeError, <<>>)
            ELSE NewRequest(method, params, "node", JsUndefined, <<op>>))
  /\ UNCHANGED <<provPc, provMode, chainId, netCalls, nodeTxs, pageVars, appVars>>

\* the node operation of request q resolved
NodeReturns(q) ==
  /\ requests[q].pc = "node"
  /\ \E reply \in NodeReplies(requests[q].nodeOps[1]) :
       requests' = [requests EXCEPT ![q].pc = "resolved",
                      ![q].result = ResultOf(requests[q].nodeOps[1], reply)]
  /\ nodeTxs' = IF Broadcasts(requests[q].nodeOps[1], requests[q].method)
                THEN nodeTxs + 1 ELSE nodeTxs
  /\ UNCHANGED <<provPc, provMode, chainId, netCalls, pageVars, appVars>>

NodeThrowsRetries(q) ==
  /\ requests[q].pc = "node"
  /\ requests' = [requests EXCEPT ![q].nodeOps = Append(@, requests[q].nodeOps[1])]
  /\ UNCHANGED <<provPc, provMode, chainId, netCalls, nodeTxs, pageVars, appVars>>

\* the node operation of request q rejected: the error goes to the caller
NodeThrows(q) ==
  /\ requests[q].pc = "node"
  /\ \E e \in NodeErrors :
       requests' = [requests EXCEPT ![q].pc = "rejected", ![q].result = e]
  /\ UNCHANGED <<provPc, provMode, chainId, netCalls, nodeTxs, pageVars, appVars>>

NextProvider ==
  \/ CreateInjectedBackendWallet
  \/ GetInterface
  \/ GetNetworkReturns
  \/ GetNetworkThrows
  \/ Request
  \/ \E q \in 1..Len(requests) : NodeReturns(q)
  \/ \E q \in 1..Len(requests) : NodeThrows(q)

\* the page is at a URL without parameters: the wallet is used on its own
InitProvider ==
  /\ Init
  /\ search = [vaultId |-> JsNull, type |-> JsNull, amount |-> JsNull,
               wallet |-> JsNull]

\* one injected wallet, from its creation on
SpecProvider == InitProvider /\ [][NextProvider]_vars

(***************************************************************************)
(* Properties                                                              *)
(***************************************************************************)
Kinds == {JsStr("deposit"), JsStr("withdraw")}

\* no call is in flight and none will be issued: main() has ended
Ended(rn) == rn.pc \notin ExternalCalls \cup {"sleep"}

\* the calls of the given names that rn issued
CallsOf(rn, names) == {i \in 1..Len(rn.log) : rn.log[i] \in names}

\* the names of the calls rn issued
CallsOfNames(rn) == {rn.log[i] : i \in 1..Len(rn.log)}

\* C1: a request whose vaultId is missing, or whose type is missing or not
\* deposit/withdraw, ends at once with ready = true, the validation message
\* as error, no payload, and no call at all (no store initialisation, no
\* wallet re-binding, no aggregator call, no dispatch).
C1_InvalidRequestFailsFast ==
  \A r \in RunIds :
    LET rn == runs[r]
    IN (Falsy(rn.search.vaultId) \/ rn.search.type \notin Kinds) =>
         /\ rn.pc = "done"
         /\ ready = TRUE
         /\ error = IF Falsy(rn.search.vaultId) \/ Falsy(rn.search.type)
                    THEN JsStr("Missing vaultId or type=? (deposit/withdraw)")
                    ELSE JsStr("Type must be deposit or withdraw")
         /\ jsonResult = NoPayload
         /\ rn.log = <<>>

\* C1 witness: a run with vaultId present and type=swap has ended in failure
C1_Witness ==
  \E r \in RunIds :
    /\ runs[r].search.type = JsStr("swap")
    /\ runs[r].search.vaultId = JsStr("vault-a")
    /\ runs[r].pc = "done"
    /\ error = JsStr(BadTypeMessage)

\* C2: every failure raised in a run, whatever the value thrown, is caught
\* and folded into error as a non-null string with ready = true; none
\* escapes main().
C2_EveryFailureFolded ==
  \A r \in RunIds :
    runs[r].raised # NotRaised =>
      /\ runs[r].pc = "done"
      /\ ready = TRUE
      /\ error.t = "string"

\* C3: a run whose calls have all returned or thrown has reached Done with
\* ready = true (each state with a call in flight has a return enabled, so
\* this is the claim's termination, stated on the final state).
C3_EndedRunIsReady ==
  \A r \in RunIds : Ended(runs[r]) => (runs[r].pc = "done" /\ ready = TRUE)

NonEmptyString(x) == x.t = "string" /\ x.v # ""

\* the aggregator returned at least one option and at least one quote to rn
GotOptionsAndQuotes(rn) ==
  /\ "fetchOptions" \in rn.returned /\ Len(rn.options) >= 1
  /\ "fetchQuotes" \in rn.returned /\ Len(rn.quotes) >= 1

WithdrawQuoted(rn) == ~IsDeposit(rn) /\ "fetchQuotes" \in CallsOfNames(rn)

\* C5 as stated: in every withdraw run the amount passed to the quote fetch
\* is strictly positive, and amount = "all" gives isMax = true.
C5_WithdrawAmountPositive ==
  \A r \in RunIds :
    LET rn == runs[r]
    IN WithdrawQuoted(rn) =>
         /\ \A i \in 1..Len(rn.inputAmounts) :
              /\ ~rn.inputAmounts[i].amount.nan
              /\ rn.inputAmounts[i].amount.micro > 0
         /\ rn.req.rawAmount = JsStr("all") =>
              \A i \in 1..Len(rn.inputAmounts) : rn.inputAmounts[i].max

\* the amount texts of the model that are decimal numbers
DecimalAmounts == {JsStr("-1"), JsStr("0"), JsStr("2")}

\* C5 amended: in every withdraw run no zero or negative amount reaches the
\* quote fetch; when the amount is absent, "all" or a decimal number the
\* amount passed is strictly positive, and "all" gives isMax = true with the
\* positive placeholder. (A text that is no number is passed as NaN.)
C5_WithdrawAmountNeverZeroOrNegative ==
  \A r \in RunIds :
    LET rn == runs[r]
    IN WithdrawQuoted(rn) =>
         /\ Len(rn.inputAmounts) = 1
         /\ ~(~rn.inputAmounts[1].amount.nan /\ rn.inputAmounts[1].amount.micro <= 0)
         /\ (rn.search.amount \in DecimalAmounts \cup {JsNull, JsStr(""), JsStr("all")}) =>
              (~rn.inputAmounts[1].amount.nan /\ rn.inputAmounts[1].amount.micro > 0)
         /\ (rn.search.amount \in {JsNull, JsStr(""), JsStr("all")}) =>
              (rn.inputAmounts[1].max /\ rn.inputAmounts[1].amount.micro > 0)

\* C5 witness: a withdraw of "all" has called the quote fetch with max
C5_Witness ==
  \E r \in RunIds :
    /\ WithdrawQuoted(runs[r])
    /\ runs[r].search.amount = JsStr("all")
    /\ runs[r].inputAmounts[1].max
    /\ runs[r].inputAmounts[1].amount.micro > 0

\* C6: for withdraw, isMax is true exactly when the amount is "all" or
\* numerically <= 0, and then the amount is the non-zero placeholder; a
\* numerically positive amount gives isMax = false and is passed unchanged.
C6_WithdrawMaxIffAllOrNonPositive ==
  \A r \in RunIds :
    LET rn == runs[r]
        parsed == BigNumberOf(rn.req.rawAmount.v)
    IN WithdrawQuoted(rn) =>
         /\ Len(rn.inputAmounts) = 1
         /\ rn.inputAmounts[1].max <=>
              (rn.req.rawAmount = JsStr("all") \/ (~parsed.nan /\ parsed.micro <= 0))
         /\ rn.inputAmounts[1].max =>
              (rn.inputAmounts[1].amount = Num(1) /\ rn.inputAmounts[1].amount.micro # 0)
         /\ (~parsed.nan /\ parsed.micro > 0) =>
              (~rn.inputAmounts[1].max /\ rn.inputAmounts[1].amount = parsed)

\* C6 witness: a withdraw of 0 was quoted as max with the placeholder
C6_Witness ==
  \E r \in RunIds :
    /\ WithdrawQuoted(runs[r])
    /\ runs[r].search.amount = JsStr("0")
    /\ runs[r].inputAmounts[1].max
    /\ runs[r].inputAmounts[1].amount = Num(PlaceholderMicro)

\* C7: for deposit exactly one AmountSpec is built, isMax is false, an
\* amount that is absent, empty or "all" becomes 1, and any other text is
\* passed as given.
C7_DepositAmountSpec ==
  \A r \in RunIds :
    LET rn == runs[r]
    IN (IsDeposit(rn) /\ "fetchQuotes" \in CallsOfNames(rn)) =>
         /\ Len(rn.inputAmounts) = 1
         /\ ~rn.inputAmounts[1].max
         /\ rn.inputAmounts[1].amount =
              IF rn.search.amount \in {JsNull, JsStr(""), JsStr("all")}
              THEN Num(Micro)
              ELSE BigNumberOf(rn.search.amount.v)

\* C7 witness: a deposit of "all" was quoted for the amount 1
C7_Witness ==
  \E r \in RunIds :
    /\ IsDeposit(runs[r])
    /\ "fetchQuotes" \in CallsOfNames(runs[r])
    /\ runs[r].search.amount = JsStr("all")
    /\ runs[r].inputAmounts[1].amount = Num(Micro)

\* C8: the page's poller stops at the first probe whose count is >= 2: a
\* probe with such a count is the last one, it is the k-th call of the probe
\* for the k-th count, and the run has left the loop for the option fetch
\* (counts 0, 1, 2 give exactly 3 probes and a final count of 2).
C8_PollStopsAtFirstSufficientProbe ==
  \A r \in RunIds :
    LET rn == runs[r]
    IN \A k \in 1..Len(rn.probes) :
         rn.probes[k] >= 2 =>
           /\ k = Len(rn.probes)
           /\ k <= 5
           /\ Cardinality(CallsOf(rn, {"probe"})) = k
           /\ rn.pc \notin {"probe", "sleep"}
           /\ "fetchOptions" \in CallsOfNames(rn)

\* C8 witness: the probes returned 0, 1, 2 and the option fetch is under way
C8_Witness ==
  \E r \in RunIds :
    /\ runs[r].probes = <<0, 1, 2>>
    /\ Cardinality(CallsOf(runs[r], {"probe"})) = 3
    /\ runs[r].pc = "fetchOptions"

\* C9: App's poller never probes more than 5 times; when every probe
\* returned a count below 2 and the loop is over, exactly 5 probes were made,
\* nothing was thrown, and the caller holds the low count (and aborts).
C9_PollGivesUpAfterMaxAttempts ==
  /\ Len(appProbes) <= 5
  /\ (appPc \in {"aborted", "generate"} /\ \A k \in 1..Len(appProbes) : appProbes[k] < 2) =>
       /\ Len(appProbes) = 5
       /\ appPc = "aborted"
       /\ optionsCount = appProbes[5]
       /\ optionsCount < 2
  /\ (Len(appProbes) = 5 /\ appProbes[5] < 2) => appPc \in {"sleep", "aborted"}

\* C9 witness: five low probes, and the effect has given up
C9_Witness ==
  /\ appPc = "aborted"
  /\ Len(appProbes) = 5
  /\ \A k \in 1..5 : appProbes[k] < 2

\* the option fetch of rn returned an empty list
GotNoOptions(rn) == "fetchOptions" \in rn.returned /\ rn.options = <<>>

\* C10: when the option listing returns an empty list the run ends in
\* Failure with the no-options error, ready = true and no payload, and
\* makes no quote fetch, step fetch or dispatch.
C10_NoOptionsIsTerminal ==
  \A r \in RunIds :
    LET rn == runs[r]
    IN GotNoOptions(rn) =>
         /\ rn.pc = "done"
         /\ ready = TRUE
         /\ error = IF rn.search.type = JsStr("deposit")
                    THEN JsStr("No deposit options available")
                    ELSE JsStr("No withdraw options available")
         /\ jsonResult = NoPayload
         /\ CallsOf(rn, {"fetchQuotes", "fetchStep", "dispatch"}) = {}
         /\ Cardinality(CallsOf(rn, {"fetchOptions"})) = 1

\* C10 witness: a withdraw run got an empty option list and has failed
C10_Witness ==
  \E r \in RunIds :
    /\ GotNoOptions(runs[r])
    /\ runs[r].search.type = JsStr("withdraw")
    /\ error = JsStr("No withdraw options available")

\* the quote fetch of rn returned an empty list
GotNoQuotes(rn) == "fetchQuotes" \in rn.returned /\ rn.quotes = <<>>

\* C11: when the quote fetch returns an empty list the run ends in Failure
\* with the no-quotes error, ready = true and no payload, and makes neither
\* a step fetch nor a dispatch.
C11_NoQuotesIsTerminal ==
  \A r \in RunIds :
    LET rn == runs[r]
    IN GotNoQuotes(rn) =>
         /\ rn.pc = "done"
         /\ ready = TRUE
         /\ error = IF rn.search.type = JsStr("deposit")
                    THEN JsStr("No deposit quotes found")
                    ELSE JsStr("No withdraw quotes found")
         /\ jsonResult = NoPayload
         /\ CallsOf(rn, {"fetchStep", "dispatch"}) = {}
         /\ Cardinality(CallsOf(rn, {"fetchQuotes"})) = 1

\* C11 witness: a deposit run got an empty quote list and has failed
C11_Witness ==
  \E r \in RunIds :
    /\ GotNoQuotes(runs[r])
    /\ runs[r].search.type = JsStr("deposit")
    /\ Len(runs[r].options) >= 1
    /\ error = JsStr("No deposit quotes found")

\* the positions of options whose first input token is USDC
UsdcFirstInput(options) ==
  {i \in 1..Len(options) :
     Len(options[i].inputs) >= 1 /\ options[i].inputs[1].id = "USDC"}

\* option is what the deposit policy asks for on options: a member, the
\* earliest option whose first input is USDC if there is one, else the first
DepositPolicyHolds(options, option) ==
  /\ \E i \in 1..Len(options) : option = options[i]
  /\ UsdcFirstInput(options) # {} =>
       \E i \in UsdcFirstInput(options) :
         /\ option = options[i]
         /\ \A j \in UsdcFirstInput(options) : i <= j
  /\ UsdcFirstInput(options) = {} => option = options[1]

\* C12: for every non-empty option list a deposit fetched, in the page and
\* in App alike, the option selected is a member of the list: the earliest
\* one whose first input token is USDC if there is one, else the first.
C12_DepositSelectionPolicy ==
  /\ \A r \in RunIds :
       LET rn == runs[r]
       IN (IsDeposit(rn) /\ "fetchOptions" \in rn.returned /\ Len(rn.options) >= 1) =>
            DepositPolicyHolds(rn.options, rn.option)
  /\ Len(appOptions) >= 1 => DepositPolicyHolds(appOptions, appOption)

\* the positions of options whose first wanted output is USDC
UsdcFirstWanted(options) ==
  {i \in 1..Len(options) :
     Len(options[i].wantedOutputs) >= 1 /\ options[i].wantedOutputs[1].id = "USDC"}

\* C13: for every non-empty option list a withdraw run fetched, the option
\* selected is the earliest one whose first wanted output is USDC if there
\* is one, else (also when options have no wanted outputs) the first; the
\* selection raises nothing and the run goes on to the quote fetch.
C13_WithdrawSelectionPolicy ==
  \A r \in RunIds :
    LET rn == runs[r]
        hits == UsdcFirstWanted(rn.options)
    IN (~IsDeposit(rn) /\ "fetchOptions" \in rn.returned /\ Len(rn.options) >= 1) =>
         /\ \E i \in 1..Len(rn.options) : rn.option = rn.options[i]
         /\ hits # {} =>
              \E i \in hits : rn.option = rn.options[i] /\ \A j \in hits : i <= j
         /\ hits = {} => rn.option = rn.options[1]
         /\ rn.log[Len(rn.log)] \in {"fetchQuotes", "fetchStep", "dispatch"}
         /\ error \notin {JsStr("No withdraw option found"),
                          JsStr("No withdraw options available")}

\* C13 witness: a withdraw run fetched an option without wanted outputs and
\* one whose second wanted output is USDC, and selected the first of them
C13_Witness ==
  \E r \in RunIds :
    /\ ~IsDeposit(runs[r])
    /\ "fetchOptions" \in runs[r].returned
    /\ Len(runs[r].options) = 2
    /\ runs[r].options[1].wantedOutputs = <<>>
    /\ runs[r].options[2].id = "zap-usdc"
    /\ runs[r].option = runs[r].options[1]
    /\ runs[r].pc = "fetchQuotes"

\* C15: on a wallet built from a bare address every eth_sendTransaction
\* request, whatever its params and wherever it falls among the requests,
\* is rejected with the signing-unavailable error and issues no node call.
C15_WriteWithoutSignerFails ==
  provMode = "address" =>
    \A q \in 1..Len(requests) :
      requests[q].method = "eth_sendTransaction" =>
        /\ requests[q].pc = "rejected"
        /\ requests[q].result = ErrObj("No signing available in data-only mode")
        /\ requests[q].nodeOps = <<>>

\* C15 witness: after a balance request went to the node, a write request
\* with params was refused on the address-only wallet
C15_Witness ==
  /\ provMode = "address"
  /\ Len(requests) = 2
  /\ requests[1].method = "eth_getBalance"
  /\ requests[1].nodeOps = <<"getBalance">>
  /\ requests[2].method = "eth_sendTransaction"
  /\ requests[2].params = "one"
  /\ requests[2].pc = "rejected"

\* the hex text of the chain ids of the model
HexOfChain(id) == IF id = 1 THEN "0x01" ELSE "0xa4b1"

\* C16: getNetwork is called once, when the interface is constructed; every
\* eth_chainId request returns the hex text of the chain id bound then, the
\* same for all of them, and issues no node call, whatever else is requested.
C16_ChainIdFetchedOnce ==
  /\ netCalls <= 1
  /\ provPc \in {"getNetwork", "ready", "failed"} => netCalls = 1
  /\ requests # <<>> => provPc = "ready" /\ chainId \in ChainIds
  /\ \A q \in 1..Len(requests) :
       requests[q].method = "eth_chainId" =>
         /\ requests[q].pc = "resolved"
         /\ requests[q].result = JsStr(HexOfChain(chainId))
         /\ requests[q].nodeOps = <<>>
  /\ \A q \in 1..Len(requests) : "getNetwork" \notin {requests[q].nodeOps[i] : i \in 1..Len(requests[q].nodeOps)}

\* C16 witness: a chain-id request was answered 0x01 with one
\* getNetwork call in all, while another request is at the node
C16_Witness ==
  /\ chainId = 1
  /\ netCalls = 1
  /\ Len(requests) = 2
  /\ requests[1].method = "eth_gasPrice"
  /\ requests[1].pc = "node"
  /\ requests[2].method = "eth_chainId"
  /\ requests[2].result = JsStr("0x01")

\* C17: once the query string has changed and a later run has started, a
\* step of an earlier run never sets or overwrites ready, error or the
\* payload: the fields the page reports are written by the latest run only.
C17_EarlierRunNeverWrites ==
  [][\A r \in RunIds :
       (r < Len(runs) /\ runs'[r] # runs[r]) =>
         UNCHANGED <<ready, error, jsonResult>>]_vars

\* C18: in every output of the page, after any sequence of runs: while
\* ready is false error and payload are both null, and once ready is true
\* exactly one of error and payload is non-null.
C18_OutputIsErrorOrPayload ==
  /\ ~finalOutput.ready =>
       (finalOutput.error = JsNull /\ finalOutput.aggregatorPayload = NoPayload)
  /\ finalOutput.ready =>
       ((finalOutput.error # JsNull) # (finalOutput.aggregatorPayload # NoPayload))

\* the poller of rn made all its probes, each with a count below 2, and
\* the loop is over
PollExhausted(rn) ==
  /\ Len(rn.probes) = MaxAttempts
  /\ \A k \in 1..Len(rn.probes) : rn.probes[k] < Minimum
  /\ rn.pc # "sleep"

Stages == <<"fetchOptions", "fetchQuotes", "fetchStep", "dispatch">>

StageNames == {"fetchOptions", "fetchQuotes", "fetchStep", "dispatch"}

\* the stage calls rn issued, in the order it issued them
StageCalls(rn) ==
  SelectSeq(rn.log, LAMBDA name : name \in StageNames)

\* C20: in a run the quote fetch is called only after the option fetch
\* returned a non-empty list of which an option was selected, the step fetch
\* only after the quote fetch returned a non-empty list, the dispatch only
\* after the step fetch returned; each is called at most once, in this
\* order with no other call in between, and at most one call of the run is
\* in flight at any time.
C20_StagesInOrder ==
  \A r \in RunIds :
    LET rn == runs[r]
        called == StageCalls(rn)
        n == Len(called)
    IN /\ n <= Len(Stages)
       /\ called = SubSeq(Stages, 1, n)
       /\ called = SubSeq(rn.log, Len(rn.log) - n + 1, Len(rn.log))
       /\ n >= 2 =>
            /\ "fetchOptions" \in rn.returned
            /\ Len(rn.options) >= 1
            /\ \E i \in 1..Len(rn.options) : rn.option = rn.options[i]
       /\ n >= 3 =>
            /\ "fetchQuotes" \in rn.returned
            /\ Len(rn.quotes) >= 1
            /\ rn.quote = rn.quotes[1]
       /\ n >= 4 => "fetchStep" \in rn.returned
       /\ Len(rn.log) - rn.settled \in {0, 1}
       /\ Len(rn.log) - rn.settled = 1 <=> rn.pc \in ExternalCalls \cup {"sleep"}

\* C20 witness: a run is awaiting the dispatch, its seventh call, after the
\* option, quote and step fetches returned
C20_Witness ==
  \E r \in RunIds :
    /\ runs[r].pc = "dispatch"
    /\ {"fetchOptions", "fetchQuotes", "fetchStep"} \subseteq runs[r].returned
    /\ Len(runs[r].log) = 7
    /\ runs[r].settled = 6

\* C21: in a run the option fetch, the quote fetch, the step fetch and the
\* dispatch are each called at most once, and once any call of the run has
\* failed the run is over: no call is in flight and none was issued after
\* the failed one (only the probe, a call that returned, is ever repeated).
C21_NothingRetriedButProbe ==
  \A r \in RunIds :
    LET rn == runs[r]
        called == StageCalls(rn)
    IN /\ \A i, j \in 1..Len(called) : called[i] = called[j] => i = j
       /\ rn.raised # NotRaised =>
            /\ rn.pc \in {"done", "escaped"}
            /\ rn.settled = Len(rn.log)

\* C21 witness: the step fetch of a run failed after two probes, and the
\* run ended with its single step fetch as its last call
C21_Witness ==
  \E r \in RunIds :
    /\ runs[r].raised = ErrObj("aggregator unavailable")
    /\ runs[r].probes = <<1, 2>>
    /\ runs[r].log[Len(runs[r].log)] = "fetchStep"
    /\ runs[r].pc = "done"
    /\ error = JsStr("aggregator unavailable")

\* the re-binding calls rn issued
ReInjectCalls(rn) ==
  SelectSeq(rn.log, LAMBDA name : name = "reInjectBackendWallet")

\* C22: a run re-binds the wallet at most once. With a wallet in the
\* request the re-binding is the call right after the store initialisation
\* returned (so after validation) and it has returned before any aggregator
\* call is made; without a wallet the run never re-binds.
C22_WalletReboundOnceBeforeAggregator ==
  \A r \in RunIds :
    LET rn == runs[r]
    IN /\ Len(rn.log) >= 1 =>
            (rn.log[1] = "initAppData" /\ ValidationError(rn.req) = NotRaised)
       /\ IF rn.search.wallet = JsNull
          THEN ReInjectCalls(rn) = <<>>
          ELSE /\ Len(ReInjectCalls(rn)) <= 1
               /\ Len(rn.log) >= 2 =>
                    /\ rn.log[2] = "reInjectBackendWallet"
                    /\ rn.methods[2] = "reInjectBackendWallet"
                    /\ "initAppData" \in rn.returned
               /\ Len(rn.log) >= 3 =>
                    /\ "reInjectBackendWallet" \in rn.returned
                    /\ rn.methods[3] = "fetchDepositOptionsFor"

\* C22 witness: a run with a wallet re-bound it as its second call and is
\* now awaiting its first probe
C22_Witness ==
  \E r \in RunIds :
    /\ runs[r].search.wallet = JsStr("0xUser")
    /\ runs[r].log = <<"initAppData", "reInjectBackendWallet", "probe">>
    /\ runs[r].pc = "probe"

\* C23: when the poller of a run is over and the option fetch was called,
\* the run has slept once less than it has probed: no sleep follows the last
\* probe, whether it succeeded or was the fifth to fail.
C23_SleepsOnlyBetweenProbes ==
  \A r \in RunIds :
    LET rn == runs[r]
    IN "fetchOptions" \in CallsOfNames(rn) =>
         Cardinality(CallsOf(rn, {"sleep"})) = Len(rn.probes) - 1

\* the requests that were a write on the signing wallet and went through
SignedWrites ==
  {q \in 1..Len(requests) :
     /\ provMode = "signer"
     /\ requests[q].method = "eth_sendTransaction"
     /\ requests[q].pc = "resolved"}

\* C24: the node's state changes only by eth_sendTransaction requests on a
\* wallet with a signer, once for each that returned its transaction hash;
\* no other request, those forwarded by the default branch included, adds a
\* transaction.
C24_OnlySignedWriteChangesNode ==
  /\ nodeTxs = Cardinality(SignedWrites)
  /\ \A q \in SignedWrites : requests[q].result = JsStr("0xhash")

\* C25: a request issues at most one node operation; while it is awaited
\* the request is pending, and when it fails the request is rejected with
\* the node's error as it came, no further operation having been issued.
C25_RequestNeverRetries ==
  \A q \in 1..Len(requests) :
    /\ Len(requests[q].nodeOps) <= 1
    /\ requests[q].pc = "node" => requests[q].nodeOps = <<NodeOpOf(requests[q].method)>>
    /\ (requests[q].pc = "rejected" /\ requests[q].nodeOps # <<>>) =>
         requests[q].result = ErrObj("could not detect network")

\* C25 witness: a balance request was rejected with the node's error after
\* its one getBalance operation
C25_Witness ==
  \E q \in 1..Len(requests) :
    /\ requests[q].method = "eth_getBalance"
    /\ requests[q].pc = "rejected"
    /\ requests[q].nodeOps = <<"getBalance">>
    /\ requests[q].result = ErrObj("could not detect network")

=============================================================================
